---- MODULE Spec2Model ----
(***************************************************************************)
(* Dark Web Gatherer: the encrypted, deduplicating store (DataManager) and *)
(* the depth-bounded onion crawler (OnionScraper).                         *)
(*                                                                         *)
(* Python strings are modelled as sequences of one-character strings, so   *)
(* that concatenation, splitting, quoting and URL parsing are computed as  *)
(* the code computes them.                                                 *)
(***************************************************************************)
EXTENDS Integers, Sequences, FiniteSets, TLC

VARIABLES
    keyFile,      \* the key in data_key.key, or NoFile
    dbFile,       \* "absent", "empty" (file without tables) or "schema"
    rows,         \* table collected_data, in id order
    meta,         \* table scan_metadata, in id order
    cipher,       \* per DataManager object: the key its Fernet cipher holds
    now,          \* wall clock, in seconds
    call,         \* the last call made on the store and what it returned
    passed,       \* the items save has processed since the tables were created
    web,          \* which hidden service the proxy reaches: "chain" or "cycle"
    scr,          \* the scrape call: status, seed and depth
    visited_urls, \* OnionScraper.visited_urls
    results,      \* the results list of the scrape call
    stack,        \* the active _crawl calls, innermost first
    fetch         \* the current or last _fetch_url call of the scrape call

storeVars == <<keyFile, dbFile, rows, meta, cipher, now, call, passed>>

crawlVars == <<web, scr, visited_urls, results, stack, fetch>>

vars == <<keyFile, dbFile, rows, meta, cipher, now, call, passed,
          web, scr, visited_urls, results, stack, fetch>>

----------------------------------------------------------------------------
(* Bounds *)

MaxBatch == 2      \* longest batch handed to save
MaxMeta  == 2      \* save calls modelled per database lifetime
MaxClock == 1      \* clock ticks modelled

----------------------------------------------------------------------------
(* Values *)

NoFile  == 0                 \* the key file does not exist
NoKey   == 0                 \* the DataManager object was never constructed

Keys    == {1, 2}           \* Fernet keys that generate_key may produce
IVs     == {0, 1}           \* what a Fernet token adds to key and plaintext
Handles == {1}              \* DataManager objects

Letters == <<"a","b","c","d","e","f","g","h","i","j","k","l","m",
             "n","o","p","q","r","s","t","u","v","w","x","y","z">>

\* code point of a character (ASCII)
Ord(c) ==
    IF \E i \in 1..26 : Letters[i] = c
    THEN 96 + (CHOOSE i \in 1..26 : Letters[i] = c)
    ELSE CASE c = "\"" -> 34
           [] c = "#"  -> 35
           [] c = "."  -> 46
           [] c = "/"  -> 47
           [] c = ":"  -> 58
           [] c = "\\" -> 92
           [] OTHER    -> 63

Chr(n) ==
    IF n \in 97..122 THEN Letters[n - 96]
    ELSE CASE n = 34 -> "\""
           [] n = 35 -> "#"
           [] n = 46 -> "."
           [] n = 47 -> "/"
           [] n = 58 -> ":"
           [] n = 92 -> "\\"
           [] OTHER  -> "?"

\* str.encode() and bytes.decode()
StrEncode(s) == [i \in 1..Len(s) |-> Ord(s[i])]
BytesDecode(b) == [i \in 1..Len(b) |-> Chr(b[i])]

\* s[:n]
Take(s, n) == IF Len(s) <= n THEN s ELSE SubSeq(s, 1, n)

RECURSIVE SplitFrom(_, _, _, _, _)
SplitFrom(s, sep, i, cur, acc) ==
    IF i > Len(s) THEN Append(acc, cur)
    ELSE IF s[i] = sep
         THEN SplitFrom(s, sep, i + 1, <<>>, Append(acc, cur))
         ELSE SplitFrom(s, sep, i + 1, Append(cur, s[i]), acc)

\* str.split(sep) for a one-character separator
Split(s, sep) == SplitFrom(s, sep, 1, <<>>, <<>>)

----------------------------------------------------------------------------
(* json.dumps / json.loads on strings *)

RECURSIVE JsonEscape(_)
JsonEscape(s) ==
    IF s = <<>> THEN <<>>
    ELSE (IF Head(s) \in {"\"", "\\"} THEN <<"\\", Head(s)>> ELSE <<Head(s)>>)
         \o JsonEscape(Tail(s))

JsonDumps(s) == <<"\"">> \o JsonEscape(s) \o <<"\"">>

RECURSIVE JsonUnescape(_)
JsonUnescape(s) ==
    IF s = <<>> THEN <<>>
    ELSE IF Head(s) = "\\" /\ Len(s) >= 2
         THEN <<s[2]>> \o JsonUnescape(Tail(Tail(s)))
         ELSE <<Head(s)>> \o JsonUnescape(Tail(s))

\* ok = FALSE (an exception) when the text is not a quoted JSON string
JsonLoads(t) ==
    IF Len(t) >= 2 /\ t[1] = "\"" /\ t[Len(t)] = "\""
    THEN [ok |-> TRUE, v |-> JsonUnescape(SubSeq(t, 2, Len(t) - 1))]
    ELSE [ok |-> FALSE, v |-> <<>>]

----------------------------------------------------------------------------
(* Fernet: authenticated symmetric encryption.  A token carries the time of  *)
(* its making and a random IV; iv stands for the two.                      *)

\* SQL NULL in the content column
NullContent == [null |-> TRUE, k |-> 0, iv |-> 0, ct |-> <<>>]

FernetEncrypt(key, iv, bytes) ==
    [null |-> FALSE,
     k    |-> key,
     iv   |-> iv,
     ct   |-> [i \in 1..Len(bytes) |-> (bytes[i] + 7 * key + iv) % 256]]

\* ok = FALSE (InvalidToken) when the token was not made under this key
FernetDecrypt(key, tok) ==
    IF tok.null \/ tok.k # key
    THEN [ok |-> FALSE, v |-> <<>>]
    ELSE [ok |-> TRUE,
          v  |-> [i \in 1..Len(tok.ct) |-> (tok.ct[i] - 7 * key - tok.iv) % 256]]

\* DataManager._encrypt_data on a str
_encrypt_data(key, iv, data) == FernetEncrypt(key, iv, StrEncode(data))

_decrypt_data_drops_last(key, tok) ==
    LET b == FernetDecrypt(key, tok)
    IN  IF ~b.ok THEN b
        ELSE [ok |-> TRUE,
              v  |-> BytesDecode(IF Len(b.v) > 1
                                 THEN SubSeq(b.v, 1, Len(b.v) - 1) ELSE b.v)]

\* DataManager._decrypt_data
_decrypt_data(key, tok) ==
    LET b == FernetDecrypt(key, tok)
    IN  IF ~b.ok THEN b ELSE [ok |-> TRUE, v |-> BytesDecode(b.v)]

\* hashlib.sha256(...).hexdigest(): injective on the byte strings modelled
Sha256(bytes) == bytes

----------------------------------------------------------------------------
(* Items handed to save *)

U1 == <<"/", "/", "a">>            \* domain "a"
U2 == <<"/", "/", "a", "b">>       \* domain "ab"
U3 == <<"a">>                      \* no "//": url.split('/')[2] fails

Item(hasUrl, url, content, title) ==
    [hasUrl |-> hasUrl, url |-> url, content |-> content, title |-> title]

Items ==
    { Item(TRUE,  U1,   <<"b">>,  <<"s">>),
      Item(TRUE,  U1,   <<"\"">>, <<"t">>),
      Item(TRUE,  U2,   <<>>,     <<"s">>),
      Item(TRUE,  U3,   <<"b">>,  <<"s">>),
      Item(FALSE, <<>>, <<"b">>,  <<"s">>) }

Batches == UNION { [1..n -> Items] : n \in 0..MaxBatch }

TitleLimit == 500
DomainLimit == 10
Unknown == <<"u","n","k","n","o","w","n">>

\* item.get('url', '')
UrlOrEmpty(item) == IF item.hasUrl THEN item.url ELSE <<>>

\* content_hash: sha256 over url + str(content)
content_hash(item) == Sha256(StrEncode(UrlOrEmpty(item) \o item.content))

encrypted_content_always(key, iv, item) ==
    _encrypt_data(key, iv, JsonDumps(item.content))

\* the content column: encrypted JSON text, NULL for falsy content
encrypted_content(key, iv, item) ==
    IF item.content # <<>>
    THEN _encrypt_data(key, iv, JsonDumps(item.content))
    ELSE NullContent

\* set(range of a sequence)
Range(f) == { f[i] : i \in DOMAIN f }

Conflicts_url_only(rs, url, hash) ==
    \E i \in DOMAIN rs : rs[i].url = url

Conflicts_hash_only(rs, url, hash) ==
    \E i \in DOMAIN rs : rs[i].source_hash = hash

\* INSERT OR IGNORE against the UNIQUE columns url and source_hash
Conflicts(rs, url, hash) ==
    \E i \in DOMAIN rs : rs[i].url = url \/ rs[i].source_hash = hash

SaveItem_counts_ignored(acc, item, key, iv, hasTables, ts) ==
    LET hash  == content_hash(item)
        enc   == encrypted_content(key, iv, item)
        parts == Split(item.url, "/")
    IN  IF item.hasUrl /\ Len(parts) < 3
        THEN acc
        ELSE LET domain == IF item.hasUrl THEN parts[3] ELSE Unknown
                 acc1   == [acc EXCEPT !.domains = @ \cup {domain}]
             IN  IF ~item.hasUrl THEN acc1
                 ELSE IF ~hasTables THEN acc1
                 ELSE IF Conflicts(acc1.rows, item.url, hash)
                      THEN [acc1 EXCEPT !.count = @ + 1]
                      ELSE [acc1 EXCEPT
                              !.rows = Append(@,
                                 [title       |-> Take(item.title, TitleLimit),
                                  url         |-> item.url,
                                  content     |-> enc,
                                  timestamp   |-> ts,
                                  source_hash |-> hash]),
                              !.count = @ + 1]

SaveItem_replaces(acc, item, key, iv, hasTables, ts) ==
    LET hash  == content_hash(item)
        enc   == encrypted_content(key, iv, item)
        parts == Split(item.url, "/")
        kept  == SelectSeq(acc.rows,
                    LAMBDA r : r.url # item.url /\ r.source_hash # hash)
    IN  IF item.hasUrl /\ Len(parts) < 3
        THEN acc
        ELSE LET domain == IF item.hasUrl THEN parts[3] ELSE Unknown
                 acc1   == [acc EXCEPT !.domains = @ \cup {domain}]
             IN  IF ~item.hasUrl THEN acc1
                 ELSE IF ~hasTables THEN acc1
                 ELSE [acc1 EXCEPT
                         !.rows = Append(kept,
                            [title       |-> Take(item.title, TitleLimit),
                             url         |-> item.url,
                             content     |-> enc,
                             timestamp   |-> ts,
                             source_hash |-> hash]),
                         !.count = @ + 1]

\* One pass of the for loop of save; acc = [rows, count, domains].
\* The try block stops at the first statement that raises.
SaveItem(acc, item, key, iv, hasTables, ts) ==
    LET hash  == content_hash(item)
        enc   == encrypted_content(key, iv, item)
        parts == Split(item.url, "/")
    IN  IF item.hasUrl /\ Len(parts) < 3
        THEN acc                                         \* IndexError
        ELSE LET domain == IF item.hasUrl THEN parts[3] ELSE Unknown
                 acc1   == [acc EXCEPT !.domains = @ \cup {domain}]
             IN  IF ~item.hasUrl THEN acc1               \* KeyError
                 ELSE IF ~hasTables THEN acc1            \* OperationalError
                 ELSE IF Conflicts(acc1.rows, item.url, hash)
                      THEN acc1                          \* rowcount = 0
                      ELSE [acc1 EXCEPT
                              !.rows = Append(@,
                                 [title       |-> Take(item.title, TitleLimit),
                                  url         |-> item.url,
                                  content     |-> enc,
                                  timestamp   |-> ts,
                                  source_hash |-> hash]),
                              !.count = @ + 1]

RECURSIVE SaveLoop_aborts(_, _, _, _, _, _, _)
SaveLoop_aborts(acc, items, i, key, iv, hasTables, ts) ==
    IF i > Len(items) THEN acc
    ELSE IF ~items[i].hasUrl \/ Len(Split(items[i].url, "/")) < 3
    THEN SaveItem(acc, items[i], key, iv, hasTables, ts)
    ELSE SaveLoop_aborts(SaveItem(acc, items[i], key, iv, hasTables, ts),
                         items, i + 1, key, iv, hasTables, ts)

\* the for loop of save: the except clause of a pass ends in continue
RECURSIVE SaveLoop(_, _, _, _, _, _, _)
SaveLoop(acc, items, i, key, iv, hasTables, ts) ==
    IF i > Len(items) THEN acc
    ELSE SaveLoop(SaveItem(acc, items[i], key, iv, hasTables, ts),
                  items, i + 1, key, iv, hasTables, ts)

record_scan_if_saved(m, saved_count, domains) ==
    IF saved_count > 0
    THEN Append(m, [items_collected |-> saved_count, domains_scanned |-> domains])
    ELSE m

\* the INSERT INTO scan_metadata that ends save
record_scan(m, saved_count, domains) ==
    Append(m, [items_collected |-> saved_count, domains_scanned |-> domains])

\* grew: by how many rows the call lengthened collected_data; size, wrote:
\* the length of the database file when wipe began and the number of random
\* bytes wipe wrote into it
NoCall ==
    [op |-> "none", h |-> 0, items |-> <<>>, ret |-> "none", out |-> <<>>,
     grew |-> 0, x |-> <<>>, tok |-> NullContent, key |-> NoKey,
     dkey |-> NoKey, size |-> 0, wrote |-> 0, limit |-> 0,
     decrypt |-> FALSE]

\* DataManager.__init__: _init_crypto, then _init_db
Construct(h) ==
    /\ IF keyFile = NoFile
       THEN \E k \in Keys :
               /\ keyFile' = k
               /\ cipher' = [cipher EXCEPT ![h] = k]
       ELSE /\ keyFile' = keyFile
            /\ cipher' = [cipher EXCEPT ![h] = keyFile]
    /\ dbFile' = "schema"          \* CREATE TABLE IF NOT EXISTS
    /\ UNCHANGED <<rows, meta, now, passed>>
    /\ UNCHANGED crawlVars
    /\ call' = [NoCall EXCEPT !.op = "init", !.h = h,
                   !.ret = IF dbFile = "absent" THEN "created" ELSE "opened"]

\* DataManager.save; the tokens of the batch are stamped with the clock
save(h, items) ==
    /\ cipher[h] # NoKey
    /\ UNCHANGED crawlVars
    /\ IF items = <<>>
       THEN /\ call' = [NoCall EXCEPT !.op = "save", !.h = h, !.ret = "False"]
            /\ UNCHANGED <<keyFile, dbFile, rows, meta, cipher, now, passed>>
       ELSE LET hasTables == dbFile = "schema"
                acc == SaveLoop([rows |-> rows, count |-> 0, domains |-> {}],
                                items, 1, cipher[h], now, hasTables, now)
            IN  IF hasTables
                THEN /\ Len(meta) < MaxMeta
                     /\ \E ds \in SUBSET acc.domains :
                           /\ Cardinality(ds) =
                                IF Cardinality(acc.domains) <= DomainLimit
                                THEN Cardinality(acc.domains) ELSE DomainLimit
                           /\ meta' = record_scan(meta, acc.count, ds)
                     /\ rows' = acc.rows
                     /\ passed' = passed \cup Range(items)
                     /\ call' = [NoCall EXCEPT !.op = "save", !.h = h,
                                    !.items = items,
                                    !.grew = Len(acc.rows) - Len(rows),
                                    !.ret = IF acc.count > 0 THEN "True"
                                            ELSE "False"]
                     /\ UNCHANGED <<keyFile, dbFile, cipher, now>>
                ELSE \* no such table: scan_metadata; the transaction rolls back
                     /\ dbFile' = "empty"
                     /\ call' = [NoCall EXCEPT !.op = "save", !.h = h,
                                    !.items = items, !.ret = "raise"]
                     /\ UNCHANGED <<keyFile, rows, meta, cipher, now, passed>>

\* the rows in an order that ORDER BY timestamp DESC may produce
Orders(rs) ==
    { p \in [1..Len(rs) -> 1..Len(rs)] :
        /\ \A i, j \in 1..Len(rs) : i # j => p[i] # p[j]
        /\ \A i, j \in 1..Len(rs) :
              i < j => rs[p[i]].timestamp >= rs[p[j]].timestamp }

Sentinel ==
    <<"[","E","N","C","R","Y","P","T","E","D"," ","C","O","N","T","E","N","T","]">>

LoadContent_keeps_token(key, row, decrypt_content) ==
    IF row.content.null THEN [kind |-> "none", v |-> <<>>]
    ELSE IF ~decrypt_content THEN [kind |-> "token", v |-> row.content.ct]
    ELSE LET d == _decrypt_data(key, row.content)
             j == IF d.ok THEN JsonLoads(d.v) ELSE d
         IN  IF j.ok THEN [kind |-> "text", v |-> j.v]
             ELSE [kind |-> "token", v |-> row.content.ct]

\* the content field of a loaded row: kind is "none", "text" or "token"
LoadContent(key, row, decrypt_content) ==
    IF row.content.null THEN [kind |-> "none", v |-> <<>>]
    ELSE IF ~decrypt_content THEN [kind |-> "token", v |-> row.content.ct]
    ELSE LET d == _decrypt_data(key, row.content)
             j == IF d.ok THEN JsonLoads(d.v) ELSE d
         IN  IF j.ok THEN [kind |-> "text", v |-> j.v]
             ELSE [kind |-> "text", v |-> Sentinel]

\* DataManager.load
load(h, limit, decrypt_content) ==
    /\ cipher[h] # NoKey
    /\ IF dbFile = "schema"
       THEN /\ \E p \in Orders(rows) :
                  LET n == IF Len(rows) <= limit THEN Len(rows) ELSE limit
                  IN  call' = [NoCall EXCEPT !.op = "load", !.h = h,
                                 !.ret = "list",
                                 !.limit = limit,
                                 !.decrypt = decrypt_content,
                                 !.out = [i \in 1..n |->
                                    [url     |-> rows[p[i]].url,
                                     title   |-> rows[p[i]].title,
                                     content |-> LoadContent(cipher[h],
                                                   rows[p[i]],
                                                   decrypt_content)]]]
            /\ UNCHANGED dbFile
       ELSE \* no such table: collected_data
            /\ dbFile' = "empty"
            /\ call' = [NoCall EXCEPT !.op = "load", !.h = h, !.ret = "raise",
                           !.limit = limit, !.decrypt = decrypt_content]
    /\ UNCHANGED <<keyFile, rows, meta, cipher, now, passed>>
    /\ UNCHANGED crawlVars

\* os.path.getsize of the database file, in pages: one for the schema and
\* one for each row of either table; a file without tables has length 0
getsize(db, rs, m) ==
    IF db = "schema" THEN 1 + Len(rs) + Len(m) ELSE 0

\* open(db_name, 'wb') truncates the file: its length afterwards
open_wb(size) == size - size

\* The with block of wipe: the file is opened for writing first, and the
\* argument of f.write is evaluated after that.
overwrite(db, rs, m) ==
    LET before  == getsize(db, rs, m)
        opened  == open_wb(before)
        random  == opened              \* len(os.urandom(os.path.getsize(..)))
    IN  [size |-> before, wrote |-> random]

wipe_keeps_key(h) ==
    /\ cipher[h] # NoKey
    /\ dbFile' = "absent"
    /\ rows' = <<>>
    /\ meta' = <<>>
    /\ passed' = {}
    /\ call' = [NoCall EXCEPT !.op = "wipe", !.h = h, !.ret = "True",
                   !.grew = 0 - Len(rows)]
    /\ UNCHANGED <<keyFile, cipher, now>>
    /\ UNCHANGED crawlVars

\* DataManager.wipe
wipe(h) ==
    /\ cipher[h] # NoKey
    /\ dbFile' = "absent"
    /\ rows' = <<>>
    /\ meta' = <<>>
    /\ keyFile' = NoFile
    /\ passed' = {}
    /\ call' = [NoCall EXCEPT !.op = "wipe", !.h = h, !.ret = "True",
                   !.grew = 0 - Len(rows),
                   !.size = IF dbFile = "absent" THEN 0
                            ELSE overwrite(dbFile, rows, meta).size,
                   !.wrote = IF dbFile = "absent" THEN 0
                             ELSE overwrite(dbFile, rows, meta).wrote]
    /\ UNCHANGED <<cipher, now>>
    /\ UNCHANGED crawlVars

\* strings handed to _encrypt_data directly
Plaintexts ==
    { <<>>, <<"b">>, <<"\"">>, <<"\\">>, <<"a", "/", "b">>, <<":", ".">>,
      <<"\"", "\"">>, <<"x", "y", "z", "\\", "#">> }

\* a call of _encrypt_data
Encrypt(h, x, iv) ==
    /\ cipher[h] # NoKey
    /\ call' = [NoCall EXCEPT !.op = "encrypt", !.h = h, !.x = x,
                   !.key = cipher[h],
                   !.tok = _encrypt_data(cipher[h], iv, x)]
    /\ UNCHANGED <<keyFile, dbFile, rows, meta, cipher, now, passed>>
    /\ UNCHANGED crawlVars

\* a call of _decrypt_data on the token the last _encrypt_data returned
Decrypt(h) ==
    /\ cipher[h] # NoKey
    /\ call.op = "encrypt"
    /\ LET d == _decrypt_data(cipher[h], call.tok)
       IN  call' = [call EXCEPT !.op = "decrypt", !.h = h,
                      !.ret = IF d.ok THEN "str" ELSE "raise",
                      !.out = d.v,
                      !.dkey = cipher[h]]
    /\ UNCHANGED <<keyFile, dbFile, rows, meta, cipher, now, passed>>
    /\ UNCHANGED crawlVars

\* a second passes
Tick ==
    /\ now < MaxClock
    /\ now' = now + 1
    /\ UNCHANGED <<keyFile, dbFile, rows, meta, cipher, call, passed>>
    /\ UNCHANGED crawlVars

----------------------------------------------------------------------------
(* URLs *)

\* first position of character c in s, 0 when absent
IndexOf(s, c) ==
    IF \E i \in 1..Len(s) : s[i] = c
    THEN CHOOSE i \in 1..Len(s) : s[i] = c /\ \A j \in 1..(i - 1) : s[j] # c
    ELSE 0

StartsWith(s, p) == Len(s) >= Len(p) /\ SubSeq(s, 1, Len(p)) = p
EndsWith(s, p) == Len(s) >= Len(p) /\ SubSeq(s, Len(s) - Len(p) + 1, Len(s)) = p
Drop(s, n) == SubSeq(s, n + 1, Len(s))

\* urllib.parse.urlparse: scheme, netloc and the rest
urlparse(u) ==
    LET i         == IndexOf(u, ":")
        hasScheme == i > 1 /\ \A k \in 1..(i - 1) : Ord(u[k]) \in 97..122
        scheme    == IF hasScheme THEN SubSeq(u, 1, i - 1) ELSE <<>>
        rest      == IF hasScheme THEN Drop(u, i) ELSE u
        after     == Drop(rest, 2)
        ends      == { k \in 1..Len(after) : after[k] \in {"/", "?", "#"} }
        stop      == IF ends = {} THEN Len(after) + 1
                     ELSE CHOOSE k \in ends : \A m \in ends : k <= m
    IN  IF StartsWith(rest, <<"/", "/">>)
        THEN [scheme |-> scheme,
              netloc |-> SubSeq(after, 1, stop - 1),
              path   |-> Drop(after, stop - 1)]
        ELSE [scheme |-> scheme, netloc |-> <<>>, path |-> rest]

\* position of the last "/" of s, 0 when absent
LastSlash(s) ==
    IF \E i \in 1..Len(s) : s[i] = "/"
    THEN CHOOSE i \in 1..Len(s) : s[i] = "/" /\ \A j \in (i + 1)..Len(s) : s[j] # "/"
    ELSE 0

\* urllib.parse.urljoin for absolute, scheme-relative, root-relative and
\* plain relative references
urljoin(base, href) ==
    LET b == urlparse(base)
        origin == b.scheme \o <<":", "/", "/">> \o b.netloc
    IN  IF urlparse(href).scheme # <<>> THEN href
        ELSE IF StartsWith(href, <<"/", "/">>) THEN b.scheme \o <<":">> \o href
        ELSE IF StartsWith(href, <<"/">>) THEN origin \o href
        ELSE origin \o (IF LastSlash(b.path) = 0 THEN <<"/">>
                        ELSE SubSeq(b.path, 1, LastSlash(b.path))) \o href

Http      == <<"h","t","t","p">>
Https     == <<"h","t","t","p","s">>
DotOnion  == <<".","o","n","i","o","n">>
OnionLen  == 22

_validate_onion_url_any_length(url) ==
    LET parsed == urlparse(url)
    IN  /\ parsed.scheme \in {Http, Https}
        /\ EndsWith(parsed.netloc, DotOnion)

\* OnionScraper._validate_onion_url
_validate_onion_url(url) ==
    LET parsed == urlparse(url)
    IN  /\ parsed.scheme \in {Http, Https}
        /\ EndsWith(parsed.netloc, DotOnion)
        /\ Len(parsed.netloc) = OnionLen

\* OnionScraper.blacklist, each pattern an extension anchored at the end
blacklist ==
    { <<".","e","x","e">>, <<".","z","i","p">>, <<".","r","a","r">>,
      <<".","t","a","r">>, <<".","g","z">>,     <<".","m","p","3">>,
      <<".","m","p","4">>, <<".","a","v","i">>, <<".","m","k","v">>,
      <<".","p","d","f">> }

\* OnionScraper._is_blacklisted
_is_blacklisted(url) == \E pattern \in blacklist : EndsWith(url, pattern)

SkippedPrefixes ==
    { <<"j","a","v","a","s","c","r","i","p","t",":">>,
      <<"m","a","i","l","t","o",":">>,
      <<"#">> }

LinkLimit == 20

\* the set links that _extract_links builds from the anchors of a page
LinkSet(base_url, hrefs) ==
    { urljoin(base_url, hrefs[i]) :
        i \in { k \in DOMAIN hrefs :
                  /\ hrefs[k] # <<>>
                  /\ ~ \E pre \in SkippedPrefixes : StartsWith(hrefs[k], pre)
                  /\ _validate_onion_url(urljoin(base_url, hrefs[k]))
                  /\ ~ _is_blacklisted(urljoin(base_url, hrefs[k])) } }

\* the lists list(links)[:20] can be: the set in any order, cut at 20
_extract_links(base_url, hrefs) ==
    LET links == LinkSet(base_url, hrefs)
        n     == Cardinality(links)
        m     == IF n <= LinkLimit THEN n ELSE LinkLimit
    IN  { l \in [1..m -> links] : \A i, j \in 1..m : i # j => l[i] # l[j] }

----------------------------------------------------------------------------
(* The hidden services crawled *)

Host16 == SubSeq(Letters, 1, 16) \o DotOnion     \* 22 characters
Host21 == SubSeq(Letters, 1, 21) \o DotOnion     \* 27 characters
Sep    == <<":", "/", "/">>
Site   == Http \o Sep \o Host16

P0 == Site \o <<"/">>
P1 == Site \o <<"/", "x">>
P2 == Site \o <<"/", "y">>
P3 == Site \o <<"/", "z">>
P4 == Site \o <<"/", "w">>

LongX   == Http \o Sep \o Host21 \o <<"/", "x">>
LongExe == Http \o Sep \o Host21 \o <<"/","f","i","l","e",".","e","x","e">>
SiteExe == Site \o <<"/","f","i","l","e",".","e","x","e">>
ShortX  == Http \o Sep \o <<"s","h","o","r","t">> \o DotOnion \o <<"/", "x">>
ExampleX == Https \o Sep \o <<"e","x","a","m","p","l","e",".","c","o","m","/","x">>

Pages == {P0, P1, P2, P3, P4}

\* a chain of depth 4 with out-of-scope and blacklisted anchors on its root
WebChain ==
    [u \in Pages |->
        CASE u = P0 -> << <<"#","t","o","p">>, P1, SiteExe, LongX, LongExe >>
          [] u = P1 -> << <<"/", "y">>, ShortX >>
          [] u = P2 -> << <<"z">>, ExampleX >>
          [] u = P3 -> << <<"/", "w">> >>
          [] OTHER  -> << >>]

\* a cycle, a self-link, and a page with a short and a long path to it
WebCycle ==
    [u \in Pages |->
        CASE u = P0 -> << <<"/", "x">>, <<"/", "y">> >>
          [] u = P1 -> << <<"/", "y">>, <<"/">> >>
          [] u = P2 -> << <<"y">>, <<"/", "z">> >>
          [] OTHER  -> << >>]

Webs == {"chain", "cycle"}

\* url -> hrefs of the anchors of its page
Site_of(w) == IF w = "chain" THEN WebChain ELSE WebCycle

Seeds == {P0, LongX, ShortX, ExampleX}

MaxDepth == 2      \* deepest crawl requested

\* the anchors of the page at url
Anchors(w, url) == IF url \in Pages THEN Site_of(w)[url] ELSE <<>>

\* _extract_links on every page of every site, computed once
LinkTable ==
    [w \in Webs |-> [u \in Pages |-> _extract_links(u, Anchors(w, u))]]

page_links_first_only(w, url) ==
    { IF l = <<>> THEN l ELSE <<l[1]>> :
        l \in (IF url \in Pages THEN LinkTable[w][url]
               ELSE _extract_links(url, Anchors(w, url))) }

\* the lists _extract_links may return for the page at url
page_links(w, url) ==
    IF url \in Pages THEN LinkTable[w][url]
    ELSE _extract_links(url, Anchors(w, url))

----------------------------------------------------------------------------
(* OnionScraper *)

max_retries == 3

Statuses == {200, 302, 403, 404, 500}
Errors   == {"Timeout", "ConnectionError"}

\* what one session.get can do: answer with a status or raise
Outcomes ==
    { [kind |-> "status", code |-> c, err |-> ""] : c \in Statuses } \cup
    { [kind |-> "error", code |-> 0, err |-> e] : e \in Errors }

NoFetch ==
    [url |-> <<>>, cur |-> 0, attempt |-> 0, outcomes |-> <<>>, requests |-> 0,
     rotations |-> 0, renewed |-> <<>>, result |-> "none", err |-> "",
     log |-> <<>>]

\* the Tor control port as renew_identity finds it
ControlStates == {"ok", "absent", "rejected"}

\* TorController.renew_identity: Controller.from_port raises when the port is
\* absent, authenticate raises when the password is rejected; the except
\* clause turns both into False
renew_identity(c) ==
    IF c = "absent" THEN FALSE
    ELSE IF c = "rejected" THEN FALSE
    ELSE TRUE

\* whether the attempt that meets outcome o ends in time.sleep(5) and
\* tor.renew_identity()
Retries(f, o) == o.kind = "error" /\ f.attempt # max_retries - 1

restart_budget(f) ==
    [NoFetch EXCEPT !.url = f.url, !.cur = f.cur, !.result = "pending"]

reraise_first(f) ==
    [f EXCEPT !.result = "raise", !.err = f.outcomes[1].err]

\* the bare raise of the last attempt: the exception being handled goes up
reraise(f) ==
    [f EXCEPT !.result = "raise", !.err = f.outcomes[Len(f.outcomes)].err]

pause_and_renew_on_last_only(f, r) ==
    IF f.attempt = max_retries - 2
    THEN [f EXCEPT !.attempt = @ + 1,
                   !.rotations = @ + 1,
                   !.renewed = Append(@, r),
                   !.log = @ \o <<"pause", "renew_identity">>]
    ELSE [f EXCEPT !.attempt = @ + 1]

pause_and_renew_stops_on_failure(f, r) ==
    IF r
    THEN [f EXCEPT !.attempt = @ + 1,
                   !.rotations = @ + 1,
                   !.renewed = Append(@, r),
                   !.log = @ \o <<"pause", "renew_identity">>]
    ELSE [f EXCEPT !.rotations = @ + 1,
                   !.renewed = Append(@, r),
                   !.log = @ \o <<"pause", "renew_identity">>,
                   !.result = "raise",
                   !.err = f.outcomes[Len(f.outcomes)].err]

\* time.sleep(5) and tor.renew_identity(), which returns r; then the next pass
pause_and_renew(f, r) ==
    [f EXCEPT !.attempt = @ + 1,
              !.rotations = @ + 1,
              !.renewed = Append(@, r),
              !.log = @ \o <<"pause", "renew_identity">>]

_fetch_attempt_jitter_once(f, o, r) ==
    LET f1 == [f EXCEPT !.outcomes = Append(@, o),
                        !.requests = @ + 1,
                        !.log = @ \o (IF f.attempt = 0
                                      THEN <<"user-agent", "jitter", "get">>
                                      ELSE <<"get">>)]
    IN  IF o.kind = "status"
        THEN IF o.code = 200 THEN [f1 EXCEPT !.result = "text"]
             ELSE [f1 EXCEPT !.result = "None"]
        ELSE IF f.attempt = max_retries - 1
             THEN reraise(f1)
             ELSE pause_and_renew(f1, r)

\* One pass of the for loop of _fetch_url: the request meets outcome o, and
\* renew_identity, when called, returns r.
_fetch_attempt(f, o, r) ==
    LET f1 == [f EXCEPT !.outcomes = Append(@, o),
                        !.requests = @ + 1,
                        !.log = @ \o <<"user-agent", "jitter", "get">>]
    IN  IF o.kind = "status"
        THEN IF o.code = 200 THEN [f1 EXCEPT !.result = "text"]
             ELSE IF o.code \in {403, 404} THEN [f1 EXCEPT !.result = "None"]
             ELSE [f1 EXCEPT !.result = "None"]
        ELSE IF f.attempt = max_retries - 1
             THEN reraise(f1)
             ELSE pause_and_renew(f1, r)

Frame(url, cur) == [url |-> url, cur |-> cur, pc |-> "enter", links |-> <<>>]

Crawling == scr.status = "crawling" /\ stack # <<>>

\* a _crawl call returns; when it was the outermost one, scrape returns
Return ==
    /\ stack' = Tail(stack)
    /\ scr' = IF Tail(stack) = <<>> THEN [scr EXCEPT !.status = "returned"]
              ELSE scr

Skips_one_level_late(url, depth, current_depth, visited) ==
    current_depth > depth + 1 \/ url \in visited

Skips_depth_only(url, depth, current_depth, visited) ==
    current_depth > depth

\* the test at the head of _crawl
Skips(url, depth, current_depth, visited) ==
    current_depth > depth \/ url \in visited

scrape_clears_first(onion_url, depth) ==
    /\ scr.status # "crawling"
    /\ results' = <<>>
    /\ visited_urls' = {}
    /\ fetch' = NoFetch
    /\ IF ~ _validate_onion_url(onion_url)
       THEN /\ scr' = [status |-> "ValueError", seed |-> onion_url,
                       depth |-> depth, fetched |-> <<>>]
            /\ UNCHANGED stack
       ELSE /\ scr' = [status |-> "crawling", seed |-> onion_url,
                       depth |-> depth, fetched |-> <<>>]
            /\ stack' = <<Frame(onion_url, 0)>>
    /\ UNCHANGED web
    /\ UNCHANGED storeVars

\* OnionScraper.scrape up to its call of _crawl
scrape(onion_url, depth) ==
    /\ scr.status # "crawling"
    /\ IF ~ _validate_onion_url(onion_url)
       THEN /\ scr' = [status |-> "ValueError", seed |-> onion_url,
                       depth |-> depth, fetched |-> <<>>]
            /\ results' = <<>>
            /\ fetch' = NoFetch
            /\ UNCHANGED <<visited_urls, stack>>
       ELSE /\ scr' = [status |-> "crawling", seed |-> onion_url,
                       depth |-> depth, fetched |-> <<>>]
            /\ results' = <<>>
            /\ visited_urls' = {}
            /\ stack' = <<Frame(onion_url, 0)>>
            /\ fetch' = NoFetch
    /\ UNCHANGED web
    /\ UNCHANGED storeVars

\* _crawl from its entry to its call of _fetch_url; scr.fetched lists the
\* urls handed to _fetch_url since scrape was called
CrawlEnter ==
    /\ Crawling
    /\ Head(stack).pc = "enter"
    /\ LET fr == Head(stack)
       IN  IF Skips(fr.url, scr.depth, fr.cur, visited_urls)
           THEN /\ Return
                /\ UNCHANGED <<visited_urls, fetch>>
           ELSE /\ visited_urls' = visited_urls \cup {fr.url}
                /\ stack' = <<[fr EXCEPT !.pc = "fetch"]>> \o Tail(stack)
                /\ fetch' = [NoFetch EXCEPT !.url = fr.url, !.cur = fr.cur,
                                            !.result = "pending"]
                /\ scr' = [scr EXCEPT !.fetched = Append(@, fr.url)]
    /\ UNCHANGED <<web, results>>
    /\ UNCHANGED storeVars

\* one attempt of _fetch_url
FetchAttempt ==
    /\ Crawling
    /\ Head(stack).pc = "fetch"
    /\ fetch.result = "pending"
    /\ \E o \in Outcomes :
          \E c \in (IF Retries(fetch, o) THEN ControlStates ELSE {"ok"}) :
             fetch' = _fetch_attempt(fetch, o, renew_identity(c))
    /\ UNCHANGED <<web, scr, visited_urls, results, stack>>
    /\ UNCHANGED storeVars

CrawlAbandon_propagates ==
    /\ Crawling
    /\ Head(stack).pc = "fetch"
    /\ fetch.result \in {"None", "raise"}
    /\ IF fetch.result = "raise"
       THEN /\ stack' = <<>>
            /\ scr' = [scr EXCEPT !.status = "returned"]
       ELSE Return
    /\ UNCHANGED <<web, visited_urls, results, fetch>>
    /\ UNCHANGED storeVars

\* _crawl after _fetch_url returned None or raised
CrawlAbandon ==
    /\ Crawling
    /\ Head(stack).pc = "fetch"
    /\ fetch.result \in {"None", "raise"}
    /\ Return
    /\ UNCHANGED <<web, visited_urls, results, fetch>>
    /\ UNCHANGED storeVars

\* _crawl after _fetch_url returned the page
CrawlPage ==
    /\ Crawling
    /\ Head(stack).pc = "fetch"
    /\ fetch.result = "text"
    /\ LET fr == Head(stack)
       IN  /\ results' = Append(results, [type |-> "page", url |-> fr.url])
           /\ IF fr.cur < scr.depth
              THEN /\ \E l \in page_links(web, fr.url) :
                        stack' = <<[fr EXCEPT !.pc = "links", !.links = l]>>
                                 \o Tail(stack)
                   /\ UNCHANGED scr
              ELSE Return
    /\ UNCHANGED <<web, visited_urls, fetch>>
    /\ UNCHANGED storeVars

\* one pass of the loop over the links, or its end
CrawlLink ==
    /\ Crawling
    /\ Head(stack).pc = "links"
    /\ LET fr == Head(stack)
       IN  IF fr.links = <<>>
           THEN Return
           ELSE /\ stack' = <<Frame(Head(fr.links), fr.cur + 1),
                              [fr EXCEPT !.links = Tail(@)]>> \o Tail(stack)
                /\ UNCHANGED scr
    /\ UNCHANGED <<web, visited_urls, results, fetch>>
    /\ UNCHANGED storeVars

\* KeyboardInterrupt during the crawl: no except clause of _fetch_url, _crawl
\* or scrape catches it, so scrape returns nothing
Interrupt ==
    /\ Crawling
    /\ stack' = <<>>
    /\ scr' = [scr EXCEPT !.status = "KeyboardInterrupt"]
    /\ UNCHANGED <<web, visited_urls, results, fetch>>
    /\ UNCHANGED storeVars

\* the depths asked for; a negative depth asks for nothing
Depths == {0 - 1} \cup 0..MaxDepth

DoScrape == \E u \in Seeds, d \in Depths : scrape(u, d)

----------------------------------------------------------------------------
(* Specifications *)

\* one DataManager has been constructed in an empty directory
StoreInit ==
    /\ keyFile = 1
    /\ cipher = [h \in Handles |-> IF h = 1 THEN 1 ELSE NoKey]
    /\ dbFile = "schema"
    /\ rows = <<>>
    /\ meta = <<>>
    /\ now = 0
    /\ call = NoCall
    /\ passed = {}

\* an OnionScraper has been constructed
ScraperInit ==
    /\ scr = [status |-> "idle", seed |-> <<>>, depth |-> 0,
              fetched |-> <<>>]
    /\ visited_urls = {}
    /\ results = <<>>
    /\ stack = <<>>
    /\ fetch = NoFetch

Init ==
    /\ StoreInit
    /\ ScraperInit
    /\ web = "chain"

DoConstruct == \E h \in Handles : Construct(h)
DoSave == \E h \in Handles, items \in Batches : save(h, items)
DoLoad == \E h \in Handles, limit \in {1, 100}, d \in BOOLEAN : load(h, limit, d)
DoWipe == \E h \in Handles : wipe(h)
DoEncrypt == \E h \in Handles, x \in Plaintexts, iv \in IVs : Encrypt(h, x, iv)
DoDecrypt == \E h \in Handles : Decrypt(h)

Next ==
    \/ DoConstruct
    \/ DoSave
    \/ DoLoad
    \/ DoWipe
    \/ Tick

Spec == Init /\ [][Next]_vars

\* the cipher on its own: _encrypt_data and _decrypt_data under changing keys
NextCipher ==
    \/ DoConstruct
    \/ DoWipe
    \/ DoEncrypt
    \/ DoDecrypt

SpecCipher == Init /\ [][NextCipher]_vars

\* two DataManager objects on the same directory, the second not yet
\* constructed; batches of one item
Owners == {1, 2}

SharedItems ==
    { Item(TRUE, U1, <<"b">>,  <<"s">>),
      Item(TRUE, U2, <<"\"">>, <<"t">>),
      Item(TRUE, U2, <<>>,     <<"s">>),
      Item(TRUE, U3, <<"b">>,  <<"s">>) }

Singles == { <<it>> : it \in SharedItems }

InitShared ==
    /\ keyFile = 1
    /\ cipher = [h \in Owners |-> IF h = 1 THEN 1 ELSE NoKey]
    /\ dbFile = "schema"
    /\ rows = <<>>
    /\ meta = <<>>
    /\ now = 0
    /\ call = NoCall
    /\ passed = {}
    /\ ScraperInit
    /\ web = "chain"

ConstructShared == \E h \in Owners : Construct(h)
SaveShared == \E h \in Owners, items \in Singles : save(h, items)
LoadShared == \E h \in Owners, limit \in {1, 100}, d \in BOOLEAN : load(h, limit, d)
WipeShared == \E h \in Owners : wipe(h)

NextShared ==
    \/ ConstructShared
    \/ SaveShared
    \/ LoadShared
    \/ WipeShared

SpecShared == InitShared /\ [][NextShared]_vars

\* the scraper against each of the hidden services
InitCrawl ==
    /\ StoreInit
    /\ ScraperInit
    /\ web \in Webs

NextCrawl ==
    \/ DoScrape
    \/ CrawlEnter
    \/ FetchAttempt
    \/ CrawlAbandon
    \/ CrawlPage
    \/ CrawlLink
    \/ Interrupt

SpecCrawl == InitCrawl /\ [][NextCrawl]_vars

\* a step of the thread that runs scrape
CrawlStep ==
    \/ CrawlEnter
    \/ FetchAttempt
    \/ CrawlAbandon
    \/ CrawlPage
    \/ CrawlLink

\* the thread that runs scrape is not held up for ever: time.sleep returns
\* and session.get answers or raises within its timeout
SpecCrawlFair == InitCrawl /\ [][NextCrawl]_vars /\ WF_vars(CrawlStep)

----------------------------------------------------------------------------
(* Properties of the store *)

\* the last call was a save that went through its loop and committed
LastSave == call.op = "save" /\ call.ret \in {"True", "False"} /\ call.items # <<>>

\* collected_data as that call found it
RowsBefore == SubSeq(rows, 1, Len(rows) - call.grew)

\* url.split('/')[2] exists
StorableUrl(item) == item.hasUrl /\ Len(Split(item.url, "/")) >= 3

\* the rows that record the pair (url, content) of an item
RowsForPair(item) ==
    { i \in DOMAIN rows :
        rows[i].url = item.url /\ rows[i].source_hash = content_hash(item) }

\* the rows that stand in the way of an item without recording its pair
OtherHolders(item) ==
    { i \in DOMAIN rows :
        /\ rows[i].url = item.url \/ rows[i].source_hash = content_hash(item)
        /\ i \notin RowsForPair(item) }

FingerprintUnique ==
    \A i, j \in DOMAIN rows : rows[i].source_hash = rows[j].source_hash => i = j

\* C1 as stated: no two rows of collected_data carry the same fingerprint,
\* and a batch that holds one item twice, saved into a store with no row of
\* that fingerprint, adds exactly one row.
C1_Original ==
    /\ FingerprintUnique
    /\ \A it \in Items :
          ( /\ LastSave
            /\ call.items = <<it, it>>
            /\ StorableUrl(it)
            /\ ~ \E i \in DOMAIN RowsBefore :
                    RowsBefore[i].source_hash = content_hash(it) )
          => call.grew = 1

\* C1 amended: no two rows of collected_data carry the same fingerprint, and
\* a batch that holds one item twice adds exactly one row when the item has a
\* url with a host part and the store held no row with that url or that
\* fingerprint, and adds no row otherwise.
C1_Dedup ==
    /\ FingerprintUnique
    /\ \A it \in Items :
          (LastSave /\ call.items = <<it, it>>)
          => call.grew =
               IF /\ StorableUrl(it)
                  /\ ~ \E i \in DOMAIN RowsBefore :
                          \/ RowsBefore[i].url = it.url
                          \/ RowsBefore[i].source_hash = content_hash(it)
               THEN 1 ELSE 0

\* the same item saved twice into a store that held another row
C1_Witness ==
    /\ LastSave
    /\ \E it \in Items : call.items = <<it, it>>
    /\ call.grew = 1
    /\ Len(rows) = 2

\* C2 as stated: every (url, content) pair handed to save, its url one the
\* store can take, is recorded by exactly one row of collected_data.
C2_Original ==
    \A it \in passed :
       StorableUrl(it) => Cardinality(RowsForPair(it)) = 1

\* C2 amended: every (url, content) pair handed to save is recorded by at
\* most one row of collected_data, and by exactly one row if and only if its
\* url has a host part and no other row carries its url or its fingerprint.
C2_ExactlyOneUnlessTaken ==
    \A it \in passed :
       /\ Cardinality(RowsForPair(it)) <= 1
       /\ Cardinality(RowsForPair(it)) = 1
             <=> (StorableUrl(it) /\ OtherHolders(it) = {})

\* two saves have handed in four items, and two pairs are recorded
C2_Witness ==
    /\ Len(meta) >= 2
    /\ Cardinality(passed) >= 4
    /\ Len(rows) = 2

\* a save call happened in this step
SaveCalled ==
    /\ call'.op = "save"
    /\ <<call', rows', meta'>> # <<call, rows, meta>>

\* C8 as stated: every call of save, whatever its batch, appends exactly one
\* row to scan_metadata and leaves the rows before it as they were.
C8_Original ==
    [][SaveCalled =>
         /\ Len(meta') = Len(meta) + 1
         /\ SubSeq(meta', 1, Len(meta)) = meta]_vars

\* C8 amended: a call of save with a non-empty batch, on a database that has
\* its tables, appends exactly one row to scan_metadata, also when it saved
\* no item; a call with an empty batch, or on a database without tables,
\* appends none; no call changes or removes a row that was there.
C8_OneScanRowPerBatch ==
    [][SaveCalled =>
         /\ Len(meta') = Len(meta) +
               (IF call'.items # <<>> /\ dbFile = "schema" THEN 1 ELSE 0)
         /\ SubSeq(meta', 1, Len(meta)) = meta]_vars

\* a non-empty batch that saved nothing has left its scan row
C8_Witness ==
    /\ LastSave
    /\ call.ret = "False"
    /\ Len(meta) = 2
    /\ meta[2].items_collected = 0

\* C6: once wipe has returned, neither the key file nor the database file
\* exists, and load on a DataManager constructed on that empty directory
\* returns the empty list.
C6_WipeLeavesNothing ==
    /\ [](call.op = "wipe" => keyFile = NoFile /\ dbFile = "absent")
    /\ [][(call.op = "init" /\ call.ret = "created" /\ call'.op = "load")
            => (call'.ret = "list" /\ call'.out = <<>>)]_vars

\* wipe has returned on a store that held two rows
C6_Witness ==
    /\ call.op = "wipe"
    /\ call.grew = 0 - 2
    /\ keyFile = NoFile
    /\ dbFile = "absent"

----------------------------------------------------------------------------
(* Properties of the cipher *)

\* C7: whatever string _encrypt_data was given, the empty one included,
\* _decrypt_data under the same key returns that string.
C7_RoundTrip ==
    (call.op = "decrypt" /\ call.dkey = call.key)
    => (call.ret = "str" /\ call.out = call.x)

\* the longest string has gone through both, with characters json would quote
C7_Witness ==
    /\ call.op = "decrypt"
    /\ call.dkey = call.key
    /\ call.x = <<"x", "y", "z", "\\", "#">>
    /\ call.ret = "str"

----------------------------------------------------------------------------
(* Properties of the scraper *)

\* the links a page offers, whatever their order
LinksOf(u) == LinkSet(u, Anchors(web, u))

\* the urls within d link-hops of the urls in S
RECURSIVE Within(_, _)
Within(S, d) ==
    IF d < 0 THEN {}
    ELSE IF d = 0 THEN S
    ELSE Within(S \cup UNION { LinksOf(u) : u \in S }, d - 1)

\* C3: every page item of a scrape lies within depth link-hops of the seed,
\* and no url is fetched at a current_depth above depth.
C3_DepthBound ==
    /\ { results[i].url : i \in DOMAIN results }
          \subseteq Within({scr.seed}, scr.depth)
    /\ fetch.result # "none" => fetch.cur <= scr.depth
    /\ \A i \in DOMAIN stack :
          stack[i].pc # "enter" => stack[i].cur <= scr.depth

\* the chain of depth 4 crawled to depth 2: three pages, the third at hop 2
C3_Witness ==
    /\ web = "chain"
    /\ scr.status = "returned"
    /\ scr.depth = 2
    /\ Len(results) = 3
    /\ results[3].url = P2

\* C4: two failed requests and then a 200 make _fetch_url return the page
\* after exactly two calls of renew_identity; a 404 on the first request
\* makes it return at once, after one request and no call of renew_identity.
C4_RetryPolicy ==
    /\ ( /\ Len(fetch.outcomes) = 3
         /\ fetch.outcomes[1].kind = "error"
         /\ fetch.outcomes[2].kind = "error"
         /\ fetch.outcomes[3].code = 200 )
       => (fetch.result = "text" /\ fetch.rotations = 2 /\ fetch.requests = 3)
    /\ ( /\ fetch.outcomes # <<>>
         /\ fetch.outcomes[1].code = 404 )
       => ( /\ fetch.result = "None"
            /\ fetch.requests = 1
            /\ fetch.rotations = 0 )

\* a fetch that failed twice and then succeeded
C4_Witness ==
    /\ fetch.result = "text"
    /\ Len(fetch.outcomes) = 3
    /\ fetch.rotations = 2

\* C9 as stated: a status other than 200, 403 and 404 on a request that is
\* not the last of the budget leaves the fetch running, with one call of
\* renew_identity for every request made so far.
C9_OtherStatusRetried ==
    ( /\ fetch.outcomes # <<>>
      /\ fetch.outcomes[Len(fetch.outcomes)].kind = "status"
      /\ fetch.outcomes[Len(fetch.outcomes)].code \notin {200, 403, 404}
      /\ Len(fetch.outcomes) < max_retries )
    => (fetch.result = "pending" /\ fetch.rotations = Len(fetch.outcomes))

\* C10: when every request of a fetch raises, _fetch_url makes exactly
\* max_retries requests and then raises the error of the last one.
C10_RaisesLastError ==
    (\A i \in DOMAIN fetch.outcomes : fetch.outcomes[i].kind = "error")
    => /\ fetch.result \in {"none", "pending", "raise"}
       /\ fetch.result = "pending" => fetch.requests < max_retries
       /\ fetch.result = "raise"
             => /\ fetch.requests = max_retries
                /\ fetch.err = fetch.outcomes[max_retries].err

\* three requests raised, the last with another error than the first
C10_Witness ==
    /\ fetch.result = "raise"
    /\ fetch.requests = 3
    /\ fetch.outcomes[1].err = "Timeout"
    /\ fetch.outcomes[3].err = "ConnectionError"
    /\ fetch.err = "ConnectionError"

\* the urls that have entered the crawl
Crawled == visited_urls \cup { stack[i].url : i \in DOMAIN stack }
              \cup UNION { Range(stack[i].links) : i \in DOMAIN stack }

Called == scr.status # "idle"

\* C5 as stated: the seed with the 21-letter host is accepted, the short
\* host and the host outside .onion are rejected, and no .exe link is ever
\* returned by _extract_links.
C5_Original ==
    /\ (Called /\ scr.seed = LongX) => scr.status # "ValueError"
    /\ (Called /\ scr.seed \in {ShortX, ExampleX}) => scr.status = "ValueError"
    /\ _is_blacklisted(LongExe)
    /\ LongExe \notin Crawled

\* C5 amended: the seed with the 21-letter host (27 characters with .onion)
\* is rejected like the short host and the host outside .onion, the seed
\* with the 16-letter host (22 characters) is accepted, and the .exe links
\* on either host match the blacklist and are never returned by
\* _extract_links.
C5_LinkValidation ==
    /\ (Called /\ scr.seed \in {LongX, ShortX, ExampleX})
          => scr.status = "ValueError"
    /\ (Called /\ scr.seed = P0) => scr.status # "ValueError"
    /\ _is_blacklisted(LongExe) /\ _is_blacklisted(SiteExe)
    /\ Crawled \cap {LongExe, SiteExe, LongX, ShortX, ExampleX} = {}

\* the links of the page that carries both .exe anchors have been extracted
C5_Witness ==
    /\ web = "chain"
    /\ scr.seed = P0
    /\ stack # <<>>
    /\ Head(stack).url = P0
    /\ Head(stack).pc = "links"
    /\ Head(stack).links = <<P1>>

\* C11: a scrape call ends in ValueError exactly when its seed fails
\* _validate_onion_url; such a call issues no fetch, produces no result,
\* starts no _crawl and leaves visited_urls as it found it.
C11_InvalidSeedFailsFast ==
    /\ [](Called => (scr.status = "ValueError"
                        <=> ~ _validate_onion_url(scr.seed)))
    /\ [](scr.status = "ValueError"
            => /\ stack = <<>>
               /\ results = <<>>
               /\ scr.fetched = <<>>
               /\ fetch.requests = 0)
    /\ [][scr'.status = "ValueError" => visited_urls' = visited_urls]_vars

\* a seed with a 27-character host is refused after a crawl that left three
\* urls in visited_urls
C11_Witness ==
    /\ scr.status = "ValueError"
    /\ scr.seed = LongX
    /\ visited_urls = {P0, P1, P2}

\* C12: during a crawl results only grows; when the fetch of a url returned
\* None or raised, only the _crawl call of that url ends, so its parent goes
\* on with the links it has left and scrape returns once the outermost call
\* has ended; a returned scrape of depth 1 or more whose seed page was
\* fetched has visited every link of that page, whichever of them failed.
C12_FailureIsNodeLocal ==
    /\ [][Crawling => /\ Len(results') >= Len(results)
                      /\ SubSeq(results', 1, Len(results)) = results]_vars
    /\ [][( /\ Crawling
            /\ Head(stack).pc = "fetch"
            /\ fetch.result \in {"None", "raise"}
            /\ scr'.status # "KeyboardInterrupt" )
          => /\ stack' = Tail(stack)
             /\ results' = results
             /\ scr'.status = IF Tail(stack) = <<>> THEN "returned"
                              ELSE "crawling"]_vars
    /\ []( ( /\ scr.status = "returned"
             /\ scr.depth >= 1
             /\ results # <<>>
             /\ results[1].url = scr.seed )
           => LinksOf(scr.seed) \subseteq visited_urls )

\* on the cyclic site the first link of the seed page was fetched without
\* success and the second link, fetched after it, is in the results
C12_Witness ==
    /\ web = "cycle"
    /\ scr.status = "returned"
    /\ scr.depth = 1
    /\ scr.fetched = <<P0, P1, P2>>
    /\ Len(results) = 2
    /\ results[1].url = P0
    /\ results[2].url = P2

\* C13 as stated: however a crawl ends, a KeyboardInterrupt included, scrape
\* returns to its caller, and what it returns holds the page items
\* accumulated so far.
C13_InterruptReturnsPartial ==
    [][(Crawling /\ ~ Crawling')
          => /\ scr'.status = "returned"
             /\ Len(results') >= Len(results)
             /\ SubSeq(results', 1, Len(results)) = results]_vars

\* C14 as stated: when wipe removes the database file it has written as
\* many random bytes into it as the file held when wipe began.
C14_OverwritesEveryByte ==
    call.op = "wipe" => call.wrote = call.size

\* the content an item of the model had when the row was written: the
\* fingerprint of the row is taken over its url and that content
SavedContent(row) ==
    { it.content : it \in { x \in Items \cup SharedItems :
                               /\ x.hasUrl
                               /\ x.url = row.url
                               /\ content_hash(x) = row.source_hash } }

\* C15: a load with decrypt_content=True on a database that has its tables
\* returns a list of min(limit, number of rows) records of distinct rows; a
\* record whose token was written under another key than the loader's
\* carries "[ENCRYPTED CONTENT]", a record written under the loader's key
\* carries the content that was saved, a record without content carries
\* none.
C15_UndecryptableGivesSentinel ==
    (call.op = "load" /\ call.decrypt /\ dbFile = "schema")
    => /\ call.ret = "list"
       /\ Len(call.out) = IF Len(rows) <= call.limit THEN Len(rows)
                          ELSE call.limit
       /\ \A i, j \in DOMAIN call.out :
             i # j => call.out[i].url # call.out[j].url
       /\ \A i \in DOMAIN call.out : \E j \in DOMAIN rows :
             /\ rows[j].url = call.out[i].url
             /\ rows[j].title = call.out[i].title
             /\ IF rows[j].content.null
                THEN call.out[i].content = [kind |-> "none", v |-> <<>>]
                ELSE IF rows[j].content.k # cipher[call.h]
                THEN call.out[i].content = [kind |-> "text", v |-> Sentinel]
                ELSE /\ call.out[i].content.kind = "text"
                     /\ call.out[i].content.v \in SavedContent(rows[j])

\* the second object loads two records: one written by the first object
\* under the key of before the wipe, one written under its own key
C15_Witness ==
    /\ call.op = "load"
    /\ call.decrypt
    /\ call.h = 2
    /\ Len(call.out) = 2
    /\ \E i, j \in 1..2 :
          /\ call.out[i].content = [kind |-> "text", v |-> Sentinel]
          /\ call.out[j].content = [kind |-> "text", v |-> <<"\"">>]

\* C16: a save of a non-empty batch into a database that has its tables
\* returns True or False, never raises, and leaves every item of the batch
\* that has a url with a host part held by a row (its url or its
\* fingerprint), wherever in the batch the items that failed stand; the rows
\* it added are rows of such items.
C16_FailureSkipsOnlyThatItem ==
    (call.op = "save" /\ call.items # <<>> /\ dbFile = "schema")
    => /\ call.ret \in {"True", "False"}
       /\ call.grew >= 0
       /\ \A i \in DOMAIN call.items :
             StorableUrl(call.items[i])
             => \E j \in DOMAIN rows :
                   \/ rows[j].url = call.items[i].url
                   \/ rows[j].source_hash = content_hash(call.items[i])
       /\ \A j \in (Len(RowsBefore) + 1)..Len(rows) :
             \E i \in DOMAIN call.items :
                /\ StorableUrl(call.items[i])
                /\ RowsForPair(call.items[i]) = {j}

\* a batch whose first item has no url and whose second item was inserted
C16_Witness ==
    /\ call.op = "save"
    /\ Len(call.items) = 2
    /\ ~ call.items[1].hasUrl
    /\ call.items[2].url = U1
    /\ call.grew = 1
    /\ call.ret = "True"

\* what the requests of a fetch decide on their own: the page after a 200,
\* None after another status, the error after max_retries errors
ResultOf(outcomes) ==
    IF outcomes = <<>> THEN "pending"
    ELSE LET o == outcomes[Len(outcomes)]
         IN  IF o.kind = "status"
             THEN IF o.code = 200 THEN "text" ELSE "None"
             ELSE IF Len(outcomes) = max_retries THEN "raise" ELSE "pending"

\* C17: renew_identity answers False, and does not raise, when the control
\* port is absent or rejects the password; in a fetch every request that
\* raised before the last of the budget is followed by one call of
\* renew_identity and then by the next request, and the result of the fetch
\* is decided by the requests alone, whatever renew_identity returned.
C17_FailedRotationIsNotFatal ==
    /\ \A c \in ControlStates : renew_identity(c) = (c = "ok")
    /\ fetch.result # "none"
       => /\ fetch.result = ResultOf(fetch.outcomes)
          /\ fetch.requests = Len(fetch.outcomes)
          /\ fetch.rotations = Len(fetch.renewed)
          /\ Len(fetch.renewed) =
                Cardinality({ i \in DOMAIN fetch.outcomes :
                                /\ fetch.outcomes[i].kind = "error"
                                /\ i < max_retries })
          /\ fetch.result = "pending" => fetch.attempt = Len(fetch.renewed)

\* both rotations of a fetch failed and its third request got the page
C17_Witness ==
    /\ fetch.renewed = <<FALSE, FALSE>>
    /\ fetch.requests = 3
    /\ fetch.result = "text"

\* C18: within one scrape call no url is handed to _fetch_url twice, the
\* urls handed to it are exactly those in visited_urls, and while the crawl
\* runs visited_urls loses no url.
C18_FetchedOncePerCall ==
    /\ [](\A i, j \in DOMAIN scr.fetched :
             scr.fetched[i] = scr.fetched[j] => i = j)
    /\ [](scr.status \in {"crawling", "returned", "KeyboardInterrupt"}
            => Range(scr.fetched) = visited_urls)
    /\ [][Crawling => visited_urls \subseteq visited_urls']_vars

\* on the cyclic site at depth 2 the third url failed at hop 2 and was not
\* fetched again when the seed page offered it at hop 1; the link back to
\* the seed was not followed either
C18_Witness ==
    /\ web = "cycle"
    /\ scr.status = "returned"
    /\ scr.depth = 2
    /\ scr.fetched = <<P0, P1, P2>>
    /\ Len(results) = 2
    /\ results[2].url = P1

\* C19: every scrape call that started crawling comes to its end, on the
\* chain and on the site with a cycle and a self-link, whatever the
\* requests answer.
C19_ScrapeTerminates ==
    (scr.status = "crawling") ~> (scr.status # "crawling")

\* a crawl of the cyclic site has returned after the first link of the seed
\* page failed and the page with the self-link was expanded
C19_Witness ==
    /\ web = "cycle"
    /\ scr.status = "returned"
    /\ scr.fetched = <<P0, P1, P2, P3>>
    /\ Len(results) = 3
    /\ stack = <<>>

\* C20 as stated: in one fetch, with its budget of max_retries requests,
\* renew_identity is called at most once.
C20_AtMostOneRotation ==
    fetch.rotations <= 1 /\ Len(fetch.renewed) <= 1

\* the positions of the requests in the log of the fetch
Gets == { i \in DOMAIN fetch.log : fetch.log[i] = "get" }

\* C21: in every fetch of a crawl each request is preceded, in its own
\* attempt, by a user-agent rotation and then a jitter delay, so no two
\* requests follow one another without a jitter delay; the first request of
\* a fetch, which follows the last request for another url, is no exception.
C21_JitterBeforeEveryRequest ==
    /\ Cardinality(Gets) = fetch.requests
    /\ \A i \in Gets :
          /\ i >= 3
          /\ fetch.log[i - 1] = "jitter"
          /\ fetch.log[i - 2] = "user-agent"
    /\ \A i, j \in Gets :
          i < j => \E k \in (i + 1)..(j - 1) : fetch.log[k] = "jitter"

\* a fetch of three requests, the first two of which raised
C21_Witness ==
    /\ fetch.requests = 3
    /\ Len(fetch.log) = 13
    /\ fetch.log[11] = "user-agent"
    /\ fetch.log[13] = "get"

\* C22: no two rows of collected_data carry the same url; a save call
\* leaves every row it found as it was (content, fingerprint, title and
\* timestamp), appends its rows behind them, and adds no row for an item
\* whose url one of the rows it found carries.
C22_UrlConflictIgnored ==
    /\ [](\A i, j \in DOMAIN rows : rows[i].url = rows[j].url => i = j)
    /\ [][call'.op = "save"
            => /\ Len(rows') >= Len(rows)
               /\ SubSeq(rows', 1, Len(rows)) = rows
               /\ \A k \in (Len(rows) + 1)..Len(rows') :
                     \A i \in DOMAIN rows : rows'[k].url # rows[i].url]_vars

\* the item with the second content for the first url was saved a second
\* later than the first: the row still has the title, the fingerprint and
\* the timestamp of the first item
C22_Witness ==
    /\ call.op = "save"
    /\ call.items = <<Item(TRUE, U1, <<"\"">>, <<"t">>)>>
    /\ call.grew = 0
    /\ call.ret = "False"
    /\ now = 1
    /\ Len(rows) = 1
    /\ rows[1].url = U1
    /\ rows[1].title = <<"s">>
    /\ rows[1].timestamp = 0
    /\ rows[1].source_hash = content_hash(Item(TRUE, U1, <<"b">>, <<"s">>))

\* the sum of items_collected over the first n rows of scan_metadata
RECURSIVE SumCollected(_)
SumCollected(n) ==
    IF n = 0 THEN 0 ELSE meta[n].items_collected + SumCollected(n - 1)

\* C23: the scan_metadata row appended by a save of a non-empty batch
\* carries the number of collected_data rows the call added, which is at
\* most the length of the batch; the call returned True exactly when that
\* number is at least 1; and the items_collected values of all rows of
\* scan_metadata add up to the number of rows of collected_data.
C23_CountMatchesRowsAdded ==
    /\ SumCollected(Len(meta)) = Len(rows)
    /\ LastSave
       => /\ meta # <<>>
          /\ meta[Len(meta)].items_collected = call.grew
          /\ call.grew >= 0
          /\ call.grew <= Len(call.items)
          /\ (call.ret = "True") <=> (call.grew >= 1)

\* the second save of the database added one row of a batch of two, after
\* a first save that added one
C23_Witness ==
    /\ LastSave
    /\ Len(call.items) = 2
    /\ call.grew = 1
    /\ Len(meta) = 2
    /\ meta[1].items_collected = 1
    /\ meta[2].items_collected = 1
    /\ Len(rows) = 2

\* a load with decrypt_content=True that returned every row of a database
\* that has its tables
LoadedAll ==
    /\ call.op = "load"
    /\ call.decrypt
    /\ dbFile = "schema"
    /\ call.limit >= Len(rows)

\* C24 as stated: such a load, by the object whose key wrote the rows,
\* returns for every row a record whose content is the content that was
\* saved, the empty string included.
C24_Original ==
    LoadedAll
    => \A j \in DOMAIN rows : \E i \in DOMAIN call.out :
          /\ call.out[i].url = rows[j].url
          /\ SavedContent(rows[j]) # {}
          /\ \A c \in SavedContent(rows[j]) :
                call.out[i].content = [kind |-> "text", v |-> c]

\* C24 amended: the record carries the content that was saved when that
\* content is not empty, and no content at all (None) when the item was
\* saved with the empty string.
C24_StoreRoundTrip ==
    LoadedAll
    => \A j \in DOMAIN rows : \E i \in DOMAIN call.out :
          /\ call.out[i].url = rows[j].url
          /\ SavedContent(rows[j]) # {}
          /\ \A c \in SavedContent(rows[j]) :
                call.out[i].content =
                   IF c = <<>> THEN [kind |-> "none", v |-> <<>>]
                   ELSE [kind |-> "text", v |-> c]

\* two rows were loaded: one saved with a quotation mark as its content,
\* one saved with the empty string
C24_Witness ==
    /\ LoadedAll
    /\ Len(call.out) = 2
    /\ \E i, j \in 1..2 :
          /\ call.out[i].url = U1
          /\ call.out[i].content = [kind |-> "text", v |-> <<"\"">>]
          /\ call.out[j].url = U2
          /\ call.out[j].content = [kind |-> "none", v |-> <<>>]

\* a scrape has returned and each of its fetches produced a page item
ReturnedAllFetched ==
    /\ scr.status = "returned"
    /\ Len(results) = Len(scr.fetched)

ResultUrls == { results[i].url : i \in DOMAIN results }

====
